---- MODULE Spec2Model ----
(***************************************************************************)
(* A model of littletree's tree engine: the identity store and mutation    *)
(* engine of BaseNode, the traversal generators of the Tree mixins, path   *)
(* addressing (NodePath) and the Route / lowest-common-ancestor engine.    *)
(*                                                                         *)
(* Node objects are the numbers 1..MaxNodes; 0 stands for Python's None.   *)
(* A node's child dict is a sequence of <<key, node>> pairs in insertion   *)
(* order (Python dicts keep insertion order; assigning to an existing key  *)
(* keeps the key's position).  Every operation is an operator from a heap  *)
(* h = [ident, parent, cdict, alive] to a result [h, err, ret]; an         *)
(* exception leaves the heap as it was at the raising statement.           *)
(***************************************************************************)
EXTENDS Integers, Sequences, FiniteSets, TLC

VARIABLES ident, parent, cdict, alive, last

vars == <<ident, parent, cdict, alive, last>>

\* ------------------------------------------------------------------ bounds
MaxNodes == 7

MaxLive == 3

MaxBatch == 2

MaxInit == 1

MaxPath == 2

MaxSteps == 4

TreeSize == 5

MaxWaypoints == 3

MaxGlob == 3

None == 0

Nodes == 1..MaxNodes

Identifiers == {"a", "b"}

DefaultIdentifier == "node"

AllIdentifiers == Identifiers \cup {DefaultIdentifier}

\* Python's order on the identifier strings (sorted() without key).
IdRank(s) == CASE s = "a" -> 1 [] s = "b" -> 2 [] s = "c" -> 3 [] OTHER -> 4

Range(s) == {s[i] : i \in 1..Len(s)}

\* ------------------------------------------------------------ Python dict
dict_contains(d, k) == \E i \in 1..Len(d) : d[i][1] = k

dict_index(d, k) == CHOOSE i \in 1..Len(d) : d[i][1] = k

dict_get(d, k) == IF dict_contains(d, k) THEN d[dict_index(d, k)][2] ELSE None

dict_setitem(d, k, v) ==
    IF dict_contains(d, k) THEN [d EXCEPT ![dict_index(d, k)] = <<k, v>>]
    ELSE Append(d, <<k, v>>)

dict_delitem(d, k) == SelectSeq(d, LAMBDA e : e[1] # k)

dict_values(d) == [i \in 1..Len(d) |-> d[i][2]]

dict_keys(d) == [i \in 1..Len(d) |-> d[i][1]]

RECURSIVE dict_update(_, _)
dict_update(d, items) ==
    IF items = <<>> THEN d
    ELSE dict_update(dict_setitem(d, items[1][1], items[1][2]), Tail(items))

\* ------------------------------------------------------------------- heap
Heap == [ident |-> ident, parent |-> parent, cdict |-> cdict, alive |-> alive]

EmptyHeap ==
    [ident |-> [n \in Nodes |-> DefaultIdentifier],
     parent |-> [n \in Nodes |-> None],
     cdict |-> [n \in Nodes |-> <<>>],
     alive |-> {}]

R(h, err, ret) == [h |-> h, err |-> err, ret |-> ret]

\* Let(v, LAMBDA x : e) is "x = v; e": the statement after an assignment.
Let(v, F(_)) == F(v)

Ok == "ok"

FreeNodes(h) == Nodes \ h.alive

FreshNode(h) == CHOOSE n \in FreeNodes(h) : \A m \in FreeNodes(h) : n <= m

\* BaseNode(identifier): a new standalone node.
construct(h, identifier) ==
    [h EXCEPT !.alive = @ \cup {FreshNode(h)},
              !.ident[FreshNode(h)] = identifier,
              !.parent[FreshNode(h)] = None,
              !.cdict[FreshNode(h)] = <<>>]

\* An object no reference reaches any more is reclaimed.
release(h, n) ==
    [h EXCEPT !.alive = @ \ {n},
              !.ident[n] = DefaultIdentifier,
              !.parent[n] = None,
              !.cdict[n] = <<>>]

is_leaf(h, n) == h.cdict[n] = <<>>

is_root(h, n) == h.parent[n] = None

children(h, n) == dict_values(h.cdict[n])

\* iter_ancestors: parent, grandparent, ... until None.  On a cyclic parent
\* chain the generator never ends; the walk is cut after MaxNodes elements,
\* which an acyclic chain never reaches.
RECURSIVE anc_walk(_, _, _)
anc_walk(h, p, fuel) ==
    IF p = None \/ fuel = 0 THEN <<>>
    ELSE <<p>> \o anc_walk(h, h.parent[p], fuel - 1)

iter_ancestors(h, n) == anc_walk(h, h.parent[n], MaxNodes)

anc_diverges(h, n) == Len(iter_ancestors(h, n)) = MaxNodes

root(h, n) ==
    LET a == iter_ancestors(h, n) IN IF a = <<>> THEN n ELSE a[Len(a)]

\* _check_loop1(self, other): "Check if other is an ancestor of self."
check_loop1(h, self, other) ==
    IF is_leaf(h, other) THEN Ok
    ELSE IF self = other THEN "LoopError"
    ELSE IF other \in Range(iter_ancestors(h, self)) THEN "LoopError"
    ELSE IF anc_diverges(h, self) THEN "hang"
    ELSE Ok

\* _check_loop2(self, others): "Check if any of others is an ancestor of self."
check_loop2(h, self, others) ==
    IF anc_diverges(h, self) THEN "hang"
    ELSE IF \E i \in 1..Len(others) :
                others[i] \in Range(iter_ancestors(h, self)) \cup {self}
         THEN "LoopError"
    ELSE Ok

\* ------------------------------------------------- single-node mutations
\* BaseNode.__setitem__: self[new_identifier] = new_node
setitem(h, self, new_identifier, new_node) ==
    LET old_node == dict_get(h.cdict[self], new_identifier) IN
    IF h.parent[new_node] # None
    THEN IF old_node # new_node THEN R(h, "DuplicateParentError", None)
         ELSE R(h, Ok, None)
    ELSE LET e == check_loop1(h, self, new_node) IN
         IF e # Ok THEN R(h, e, None)
         ELSE LET h1 == IF old_node # None
                        THEN [h EXCEPT !.parent[old_node] = None] ELSE h
                  h2 == [h1 EXCEPT
                           !.cdict[self] = dict_setitem(@, new_identifier, new_node),
                           !.ident[new_node] = new_identifier]
              IN R([h2 EXCEPT !.parent[new_node] = self], Ok, None)

\* BaseNode.identifier (setter)
set_identifier(h, self, new_identifier) ==
    LET p == h.parent[self]
        old_identifier == h.ident[self]
    IN IF p # None
       THEN IF dict_contains(h.cdict[p], new_identifier)
            THEN R(h, "DuplicateChildError", None)
            ELSE IF ~dict_contains(h.cdict[p], old_identifier)
            THEN R(h, "KeyError", None)
            ELSE R([h EXCEPT
                      !.cdict[p] = dict_setitem(dict_delitem(@, old_identifier),
                                                new_identifier, self),
                      !.ident[self] = new_identifier], Ok, None)
       ELSE R([h EXCEPT !.ident[self] = new_identifier], Ok, None)

\* the tail of the parent setter: "if old_parent is not None: del old_parent._cdict[t]"
del_from_old_parent(h, old_parent, t) ==
    IF old_parent = None THEN R(h, Ok, None)
    ELSE IF ~dict_contains(h.cdict[old_parent], t) THEN R(h, "KeyError", None)
    ELSE R([h EXCEPT !.cdict[old_parent] = dict_delitem(@, t)], Ok, None)

\* BaseNode.parent (setter); new_parent may be None
set_parent(h, self, new_parent) ==
    LET old_parent == h.parent[self]
        t == h.ident[self]
    IN IF old_parent = new_parent THEN R(h, Ok, None)
       ELSE IF new_parent = None
       THEN del_from_old_parent([h EXCEPT !.parent[self] = None], old_parent, t)
       ELSE IF dict_contains(h.cdict[new_parent], t)
       THEN R(h, "DuplicateChildError", None)
       ELSE LET e == check_loop1(h, self, new_parent) IN
            IF e # Ok THEN R(h, e, None)
            ELSE del_from_old_parent(
                     [h EXCEPT !.cdict[new_parent] = dict_setitem(@, t, self),
                               !.parent[self] = new_parent],
                     old_parent, t)

\* BaseNode.pop(identifier)
pop(h, self, identifier) ==
    LET node == dict_get(h.cdict[self], identifier) IN
    IF node = None THEN R(h, Ok, None)
    ELSE LET h1 == [h EXCEPT !.cdict[self] = dict_delitem(@, identifier)]
         IN R([h1 EXCEPT !.parent[node] = None], Ok, node)

\* BaseNode.__delitem__
delitem(h, self, identifier) ==
    Let(pop(h, self, identifier), LAMBDA r :
        IF r.ret = None THEN R(r.h, "KeyError", None) ELSE R(r.h, Ok, None))

\* BaseNode.detach()
detach(h, self) ==
    LET p == h.parent[self] IN
    IF p = None THEN R(h, Ok, self)
    ELSE IF ~dict_contains(h.cdict[p], h.ident[self]) THEN R(h, "KeyError", None)
    ELSE LET h1 == [h EXCEPT !.cdict[p] = dict_delitem(@, h.ident[self])]
         IN R([h1 EXCEPT !.parent[self] = None], Ok, self)

\* BaseNode.remove_child(node)
remove_child(h, self, node) ==
    IF h.parent[node] = self THEN detach(h, node)
    ELSE R(h, "ValueError", None)

\* BaseNode.clear()
RECURSIVE clear_parents(_, _)
clear_parents(h, cs) ==
    IF cs = <<>> THEN h
    ELSE clear_parents([h EXCEPT !.parent[cs[1]] = None], Tail(cs))

clear(h, self) ==
    R([clear_parents(h, children(h, self)) EXCEPT !.cdict[self] = <<>>], Ok, None)

\* add_child storing the node as __setitem__ does: a child that already holds
\* the identifier is evicted
add_child_evicting(h, self, node) ==
    IF is_root(h, node) THEN setitem(h, self, h.ident[node], node)
    ELSE R(h, "DuplicateParentError", None)

\* BaseNode.add_child(node, check_loop=True)
add_child(h, self, node) ==
    IF is_root(h, node)
    THEN LET identifier == h.ident[node] IN
         IF dict_contains(h.cdict[self], identifier)
         THEN R(h, "DuplicateChildError", None)
         ELSE LET e == IF ~is_leaf(h, node) THEN check_loop1(h, self, node) ELSE Ok IN
              IF e # Ok THEN R(h, e, None)
              ELSE LET h1 == [h EXCEPT !.cdict[self] = dict_setitem(@, identifier, node)]
                   IN R([h1 EXCEPT !.parent[node] = self], Ok, None)
    ELSE R(h, "DuplicateParentError", None)

\* ------------------------------------------------------------- traversal
\* NodeItem(index, depth) travels with its node: [node, index, depth].
NodeItem(n, index, depth) == [node |-> n, index |-> index, depth |-> depth]

\* enumerate(node.children) paired with NodeItem(index, depth)
child_items(h, n, depth) ==
    [i \in 1..Len(h.cdict[n]) |-> NodeItem(h.cdict[n][i][2], i - 1, depth)]

\* A keep predicate: none, or a pure function of (node, item).
NoKeep == [kind |-> "none"]

keep_call(keep, e) ==
    CASE keep.kind = "none" -> TRUE
      [] keep.kind = "nodes" -> e.node \in keep.acc
      [] keep.kind = "depth" -> e.depth < keep.d
      [] keep.kind = "index" -> e.index <= keep.i

\* pre_loop pushing the children to the front without reversing them first
RECURSIVE pre_loop_unreversed(_, _, _)
pre_loop_unreversed(h, keep, nodes) ==
    IF nodes = <<>> THEN <<>>
    ELSE IF keep_call(keep, Head(nodes))
    THEN <<Head(nodes)>>
         \o pre_loop_unreversed(h, keep,
                Let(child_items(h, Head(nodes).node, Head(nodes).depth + 1), LAMBDA c :
                    [i \in 1..Len(c) |-> c[Len(c) + 1 - i]])
                \o Tail(nodes))
    ELSE pre_loop_unreversed(h, keep, Tail(nodes))

\* DownTree._iter_descendants_pre: the while loop over the deque `nodes`
RECURSIVE pre_loop(_, _, _)
pre_loop(h, keep, nodes) ==
    IF nodes = <<>> THEN <<>>
    ELSE LET e == Head(nodes) IN
         IF keep_call(keep, e)
         THEN <<e>> \o pre_loop(h, keep, child_items(h, e.node, e.depth + 1) \o Tail(nodes))
         ELSE pre_loop(h, keep, Tail(nodes))

iter_descendants_pre(h, self, keep) == pre_loop(h, keep, child_items(h, self, 1))

\* level_loop filtering instead of pruning: the children of a rejected node
\* are still queued
RECURSIVE level_loop_filter(_, _, _)
level_loop_filter(h, keep, nodes) ==
    IF nodes = <<>> THEN <<>>
    ELSE (IF keep_call(keep, Head(nodes)) THEN <<Head(nodes)>> ELSE <<>>)
         \o level_loop_filter(h, keep, Tail(nodes)
                \o child_items(h, Head(nodes).node, Head(nodes).depth + 1))

\* the level loop with a stack in place of the FIFO queue: the children go
\* to the front of `nodes`
level_loop_stack(h, keep, nodes) == pre_loop(h, keep, nodes)

\* DownTree._iter_descendants_level: the while loop over the deque `nodes`
RECURSIVE level_loop(_, _, _)
level_loop(h, keep, nodes) ==
    IF nodes = <<>> THEN <<>>
    ELSE LET e == Head(nodes) IN
         IF keep_call(keep, e)
         THEN <<e>> \o level_loop(h, keep, Tail(nodes) \o child_items(h, e.node, e.depth + 1))
         ELSE level_loop(h, keep, Tail(nodes))

iter_descendants_level(h, self, keep) == level_loop(h, keep, child_items(h, self, 1))

\* ----------------------------------------------------------- iter_levels
\* "level = (child for node in level for child in node.children)"
RECURSIVE next_level(_, _)
next_level(h, level) ==
    IF level = <<>> THEN <<>>
    ELSE dict_values(h.cdict[level[1]]) \o next_level(h, Tail(level))

\* a loop that stops as soon as the following level is empty
RECURSIVE levels_loop_short(_, _)
levels_loop_short(h, level) ==
    IF next_level(h, level) = <<>> THEN <<>>
    ELSE <<level>> \o levels_loop_short(h, next_level(h, level))

\* "while next(test, None): yield output; level = ..."; a node is truthy, so
\* the loop ends at the first empty level
RECURSIVE levels_loop(_, _)
levels_loop(h, level) ==
    IF level = <<>> THEN <<>>
    ELSE <<level>> \o levels_loop(h, next_level(h, level))

\* NodeMixin._iter_descendants_post_rec: the recursive reference implementation
RECURSIVE post_rec_children(_, _, _, _)
post_rec_children(h, keep, items, depth) ==
    IF items = <<>> THEN <<>>
    ELSE LET e == Head(items) IN
         (IF keep_call(keep, e)
          THEN post_rec_children(h, keep, child_items(h, e.node, depth + 1), depth + 1)
               \o <<e>>
          ELSE <<>>)
         \o post_rec_children(h, keep, Tail(items), depth)

iter_descendants_post_rec(h, self, keep) ==
    post_rec_children(h, keep, child_items(h, self, 1), 1)

\* Tree._iter_descendants_post, the iterative version.  The loop state is
\* (node, item, nodes, stack): `nodes` is the iterator over the remaining
\* siblings, `stack` holds (item, nodes) frames; node = None is (None, None).
NoItem == NodeItem(None, 0, 0)

next_of(nodes) == IF nodes = <<>> THEN NoItem ELSE Head(nodes)

rest_of(nodes) == IF nodes = <<>> THEN <<>> ELSE Tail(nodes)

\* post_down descending below a node that keep rejected
RECURSIVE post_down_unpruned(_, _, _, _, _)
post_down_unpruned(h, keep, e, nodes, stack) ==
    IF ~is_leaf(h, e.node)
    THEN post_down_unpruned(h, keep, Head(child_items(h, e.node, e.depth + 1)),
                            Tail(child_items(h, e.node, e.depth + 1)),
                            Append(stack, [item |-> e, nodes |-> nodes]))
    ELSE [e |-> e, nodes |-> nodes, stack |-> stack, keep_node |-> keep_call(keep, e)]

\* "Go down": while keep_node and node.children
RECURSIVE post_down(_, _, _, _, _)
post_down(h, keep, e, nodes, stack) ==
    IF keep_call(keep, e) /\ ~is_leaf(h, e.node)
    THEN LET cs == child_items(h, e.node, e.depth + 1) IN
         post_down(h, keep, Head(cs), Tail(cs),
                   Append(stack, [item |-> e, nodes |-> nodes]))
    ELSE [e |-> e, nodes |-> nodes, stack |-> stack, keep_node |-> keep_call(keep, e)]

\* "Go up": while node is None and stack
RECURSIVE post_up(_, _, _, _, _)
post_up(h, e, nodes, stack, par) ==
    IF e.node = None /\ stack # <<>>
    THEN LET top == stack[Len(stack)]
             up == NodeItem(par, top.item.index, top.item.depth)
             r == post_up(h, next_of(top.nodes), rest_of(top.nodes),
                          SubSeq(stack, 1, Len(stack) - 1), h.parent[par])
         IN [r EXCEPT !.out = <<up>> \o @]
    ELSE [out |-> <<>>, e |-> e, nodes |-> nodes, stack |-> stack]

\* the outer loop: while node or stack
RECURSIVE post_loop(_, _, _, _, _)
post_loop(h, keep, e, nodes, stack) ==
    IF e.node = None /\ stack = <<>> THEN <<>>
    ELSE Let(post_down(h, keep, e, nodes, stack), LAMBDA d :
         Let(post_up(h, next_of(d.nodes), rest_of(d.nodes), d.stack,
                     h.parent[d.e.node]), LAMBDA u :
             (IF d.keep_node THEN <<d.e>> ELSE <<>>)
             \o u.out
             \o post_loop(h, keep, u.e, u.nodes, u.stack)))

iter_descendants_post(h, self, keep) ==
    LET nodes == child_items(h, self, 1) IN
    post_loop(h, keep, next_of(nodes), rest_of(nodes), <<>>)

\* DownTree.iter_descendants(keep, order, with_item=True)
iter_descendants(h, self, keep, order) ==
    CASE order = "pre" -> iter_descendants_pre(h, self, keep)
      [] order = "post" -> iter_descendants_post(h, self, keep)
      [] order = "level" -> iter_descendants_level(h, self, keep)
      [] order = "post_rec" -> iter_descendants_post_rec(h, self, keep)

\* iter_tree forgetting the call root in postorder
iter_tree_post_without_root(h, self, keep, order) ==
    IF keep_call(keep, NodeItem(self, 0, 0))
    THEN (IF order \in {"pre", "level"} THEN <<NodeItem(self, 0, 0)>> ELSE <<>>)
         \o iter_descendants(h, self, keep, order)
    ELSE <<>>

\* DownTree.iter_tree(keep, order, with_item=True)
iter_tree(h, self, keep, order) ==
    LET item == NodeItem(self, 0, 0) IN
    IF keep_call(keep, item)
    THEN (IF order \in {"pre", "level"} THEN <<item>> ELSE <<>>)
         \o iter_descendants(h, self, keep, order)
         \o (IF order = "post" THEN <<item>> ELSE <<>>)
    ELSE <<>>

\* DownTree.count_descendants()
count_descendants(h, self) == Len(iter_descendants(h, self, NoKeep, "pre"))

\* Walking the child dicts from n never ends when a node is below itself.
RECURSIVE below_itself(_, _, _)
below_itself(h, n, fuel) ==
    IF fuel = 0 THEN TRUE
    ELSE \E i \in 1..Len(h.cdict[n]) : below_itself(h, h.cdict[n][i][2], fuel - 1)

desc_diverges(h, n) == below_itself(h, n, MaxNodes)

\* DownTree.iter_levels(): the groups, each as the list of its nodes
iter_levels(h, self) ==
    IF desc_diverges(h, self) THEN R(h, "hang", None)
    ELSE R(h, Ok, levels_loop(h, <<self>>))

\* ------------------------------------------------------------------- copy
\* the inner while loop of transform: climb back to the insertion depth
RECURSIVE climb(_, _, _, _)
climb(h, other, insert_depth, depth) ==
    IF insert_depth >= depth
    THEN climb(h, h.parent[other], insert_depth - 1, depth)
    ELSE [other |-> other, insert_depth |-> insert_depth]

\* the for loop of transform over iter_descendants(keep=keep, with_item=True)
RECURSIVE transform_loop(_, _, _, _, _)
transform_loop(h, src, items, other, insert_depth) ==
    IF items = <<>> THEN [h |-> h, other |-> other]
    ELSE Let(climb(h, other, insert_depth, Head(items).depth), LAMBDA c :
             transform_loop(setitem(construct(h, DefaultIdentifier), c.other,
                                    src.ident[Head(items).node], FreshNode(h)).h,
                            src, Tail(items), FreshNode(h), c.insert_depth + 1))

\* transform without "other._identifier = self._identifier"
transform_unnamed_root(h, self, keep) ==
    IF desc_diverges(h, self) THEN R(h, "hang", None)
    ELSE Let(iter_descendants_pre(h, self, keep), LAMBDA items :
             IF Cardinality(FreeNodes(h)) < 1 + Len(items) THEN R(h, "nomem", None)
             ELSE Let(transform_loop(construct(h, DefaultIdentifier),
                                     h, items, FreshNode(h), 0), LAMBDA t :
                      R(t.h, Ok, root(t.h, t.other))))

\* BaseNode.transform(f, keep) with f = lambda: BaseNode(), i.e. BaseNode.copy(keep=keep)
transform(h, self, keep) ==
    IF desc_diverges(h, self) THEN R(h, "hang", None)
    ELSE Let(iter_descendants_pre(h, self, keep), LAMBDA items :
             IF Cardinality(FreeNodes(h)) < 1 + Len(items) THEN R(h, "nomem", None)
             ELSE Let(transform_loop([construct(h, DefaultIdentifier) EXCEPT
                                        !.ident[FreshNode(h)] = h.ident[self]],
                                     h, items, FreshNode(h), 0), LAMBDA t :
                      R(t.h, Ok, root(t.h, t.other))))

copy(h, self) == transform(h, self, NoKeep)

\* Objects created during a call that nothing of the caller's world refers
\* to afterwards are reclaimed: new nodes whose root is a new node.
collect(before, after) ==
    LET garbage == {n \in after.alive \ before.alive : root(after, n) \notin before.alive}
    IN [ident |-> [n \in Nodes |-> IF n \in garbage THEN DefaultIdentifier ELSE after.ident[n]],
        parent |-> [n \in Nodes |-> IF n \in garbage THEN None ELSE after.parent[n]],
        cdict |-> [n \in Nodes |-> IF n \in garbage THEN <<>> ELSE after.cdict[n]],
        alive |-> after.alive \ garbage]

\* ----------------------------------------------------------------- update
\* BaseNode._update(other): "Low-level update. Never use directly."
RECURSIVE low_update(_, _, _)
low_update(h, self, items) ==
    IF items = <<>> THEN h
    ELSE LET identifier == items[1][1]
             child == items[1][2]
             h1 == [h EXCEPT !.parent[child] = self]
             old_child == dict_get(h1.cdict[self], identifier)
             h2 == IF old_child # None THEN [h1 EXCEPT !.parent[old_child] = None] ELSE h1
         IN low_update([h2 EXCEPT !.cdict[self] = dict_setitem(@, identifier, child)],
                       self, Tail(items))

\* mapping branch, mode "detach": for node in other.values(): node.detach()
RECURSIVE detach_all(_, _)
detach_all(h, nodes) ==
    IF nodes = <<>> THEN R(h, Ok, None)
    ELSE Let(detach(h, nodes[1]), LAMBDA r :
             IF r.err # Ok THEN r ELSE detach_all(r.h, Tail(nodes)))

\* mapping branch, mode "copy": the loop that fills conflict_resolutions and
\* assigns node._identifier = identifier
RECURSIVE resolve_conflicts(_, _, _)
resolve_conflicts(h, items, conflict_resolutions) ==
    IF items = <<>> THEN [h |-> h, err |-> Ok, conflict_resolutions |-> conflict_resolutions]
    ELSE LET identifier == items[1][1]
             node == items[1][2]
         IN IF h.parent[node] # None
            THEN Let(copy(h, node), LAMBDA c :
                 IF c.err # Ok
                 THEN [h |-> h, err |-> c.err, conflict_resolutions |-> conflict_resolutions]
                 ELSE resolve_conflicts([c.h EXCEPT !.ident[node] = identifier],
                                        Tail(items),
                                        dict_setitem(conflict_resolutions, identifier, c.ret)))
            ELSE resolve_conflicts([h EXCEPT !.ident[node] = identifier],
                                   Tail(items), conflict_resolutions)

\* iterable branch: the loop that builds other_dict
RECURSIVE gather(_, _, _, _)
gather(h, nodes, mode, other_dict) ==
    IF nodes = <<>> THEN [h |-> h, err |-> Ok, other_dict |-> other_dict]
    ELSE LET node == nodes[1] IN
         IF h.parent[node] # None
         THEN Let(IF mode = "copy" THEN copy(h, node) ELSE detach(h, node), LAMBDA r :
              IF r.err # Ok THEN [h |-> r.h, err |-> r.err, other_dict |-> other_dict]
              ELSE gather(r.h, Tail(nodes), mode,
                          dict_setitem(other_dict, r.h.ident[r.ret], r.ret)))
         ELSE gather(h, Tail(nodes), mode, dict_setitem(other_dict, h.ident[node], node))

update_mapping(h, self, items, mode, check_loop) ==
    LET e == IF check_loop THEN check_loop2(h, self, dict_values(items)) ELSE Ok IN
    IF e # Ok THEN R(h, e, None)
    ELSE IF mode = "detach"
    THEN Let(detach_all(h, dict_values(items)), LAMBDA d :
         IF d.err # Ok THEN d ELSE R(low_update(d.h, self, items), Ok, None))
    ELSE Let(resolve_conflicts(h, items, <<>>), LAMBDA c :
         IF c.err # Ok THEN R(h, c.err, None)
         ELSE R(low_update(c.h, self, dict_update(items, c.conflict_resolutions)),
                Ok, None))

update_iterable(h, self, nodes, mode, check_loop) ==
    Let(gather(h, nodes, mode, <<>>), LAMBDA g :
    IF g.err # Ok THEN R(g.h, g.err, None)
    ELSE LET e == IF check_loop THEN check_loop2(g.h, self, dict_values(g.other_dict))
                  ELSE Ok
         IN IF e # Ok THEN R(g.h, e, None)
            ELSE R(low_update(g.h, self, g.other_dict), Ok, None))

update_node(h, self, other, mode, check_loop) ==
    LET e == IF check_loop THEN check_loop1(h, self, other) ELSE Ok IN
    IF e # Ok THEN R(h, e, None)
    ELSE Let(IF mode = "copy" THEN copy(h, other) ELSE R(h, Ok, other), LAMBDA c :
         IF c.err # Ok THEN R(h, c.err, None)
         ELSE R([low_update(c.h, self, c.h.cdict[c.ret]) EXCEPT !.cdict[c.ret] = <<>>],
                Ok, None))

\* BaseNode.update(other, mode, check_loop); `other` is a mapping
\* [kind |-> "mapping", items], an iterable [kind |-> "iterable", nodes] or a
\* node [kind |-> "node", node].
update(h, self, other, mode, check_loop) ==
    Let(CASE other.kind = "mapping" ->
                 update_mapping(h, self, other.items, mode, check_loop)
          [] other.kind = "iterable" ->
                 update_iterable(h, self, other.nodes, mode, check_loop)
          [] other.kind = "node" ->
                 update_node(h, self, other.node, mode, check_loop),
        LAMBDA r : R(collect(h, r.h), r.err, None))

\* BaseNode.__init__(identifier, children, parent); `children` is empty
\* ([kind |-> "iterable", nodes |-> <<>>]), a mapping or an iterable.
\* parent._check_loop2(children) iterates `children`: over a mapping that
\* yields its keys, never a node.
init_node(h, identifier, ch, par) ==
    IF FreeNodes(h) = {} THEN R(h, "nomem", None)
    ELSE
    Let(FreshNode(h), LAMBDA self :
    Let([construct(h, identifier) EXCEPT !.parent[self] = par], LAMBDA h0 :
    LET nonempty == IF ch.kind = "mapping" THEN ch.items # <<>> ELSE ch.nodes # <<>>
        e == IF nonempty /\ par # None
             THEN IF ch.kind = "iterable" /\ check_loop2(h0, par, ch.nodes) # Ok
                  THEN check_loop2(h0, par, ch.nodes)
                  ELSE IF anc_diverges(h0, par) THEN "hang"
                  ELSE IF dict_contains(h0.cdict[par], identifier)
                  THEN "DuplicateChildError"
                  ELSE Ok
             ELSE Ok
    IN IF e # Ok THEN R(h, e, None)
       ELSE Let(IF nonempty THEN update(h0, self, ch, "copy", FALSE)
                ELSE R(h0, Ok, None), LAMBDA u :
            IF u.err # Ok THEN R(h, u.err, None)
            ELSE IF par = None THEN R(u.h, Ok, self)
            ELSE IF dict_contains(u.h.cdict[par], identifier)
            THEN R(h, "DuplicateChildError", None)
            ELSE R([u.h EXCEPT !.cdict[par] = dict_setitem(@, identifier, self)],
                   Ok, self))))

\* ---------------------------------------------------------- sort_children
\* Python's sorted(): a stable sort; with reverse=True elements with equal
\* keys still keep their original order.  rank(e) is the sort key of e.
RECURSIVE insert_stable(_, _, _, _)
insert_stable(sorted, x, rank(_), reverse) ==
    IF sorted = <<>> THEN <<x>>
    ELSE LET y == sorted[Len(sorted)]
             x_before_y == IF reverse THEN rank(x) > rank(y) ELSE rank(x) < rank(y)
         IN IF x_before_y
            THEN Append(insert_stable(SubSeq(sorted, 1, Len(sorted) - 1), x, rank, reverse), y)
            ELSE Append(sorted, x)

RECURSIVE sorted_by(_, _, _, _)
sorted_by(acc, s, rank(_), reverse) ==
    IF s = <<>> THEN acc
    ELSE sorted_by(insert_stable(acc, s[1], rank, reverse), Tail(s), rank, reverse)

\* the body applied to self and to every descendant d:
\*   key given:  nodes = sorted(d.children, key=key); d._cdict.clear();
\*               d._cdict.update((n._identifier, n) for n in nodes)
\*   no key:     nodes = sorted(d._cdict.items()); d._cdict.clear(); d._cdict.update(nodes)
\* The key function modelled is len(node.children).
sort_one(h, d, key, reverse) ==
    IF key = "none"
    THEN [h EXCEPT !.cdict[d] =
            dict_update(<<>>, sorted_by(<<>>, @, LAMBDA e : IdRank(e[1]), reverse))]
    ELSE Let(sorted_by(<<>>, dict_values(h.cdict[d]),
                       LAMBDA n : Len(h.cdict[n]), reverse), LAMBDA nodes :
             [h EXCEPT !.cdict[d] =
                dict_update(<<>>, [i \in 1..Len(nodes) |-> <<h.ident[nodes[i]], nodes[i]>>])])

RECURSIVE sort_each(_, _, _, _)
sort_each(h, ds, key, reverse) ==
    IF ds = <<>> THEN h
    ELSE sort_each(sort_one(h, ds[1].node, key, reverse), Tail(ds), key, reverse)

\* BaseNode.sort_children(key, recursive, reverse)
sort_children(h, self, key, recursive, reverse) ==
    IF recursive /\ desc_diverges(h, self) THEN R(h, "hang", None)
    ELSE Let(sort_one(h, self, key, reverse), LAMBDA h1 :
         IF recursive
         THEN R(sort_each(h1, iter_descendants_pre(h1, self, NoKeep), key, reverse), Ok, None)
         ELSE R(h1, Ok, None))

\* ------------------------------------------------------- path addressing
\* a lookup that stops at the first absent segment and returns the node
\* reached so far
RECURSIVE path_call_partial(_, _, _)
path_call_partial(h, node, path) ==
    IF path = <<>> THEN R(h, Ok, node)
    ELSE IF ~dict_contains(h.cdict[node], path[1]) THEN R(h, Ok, node)
    ELSE path_call_partial(h, dict_get(h.cdict[node], path[1]), Tail(path))

\* NodePath.__call__(path): node = node._cdict[segment] for each segment
RECURSIVE path_call(_, _, _)
path_call(h, node, path) ==
    IF path = <<>> THEN R(h, Ok, node)
    ELSE IF ~dict_contains(h.cdict[node], path[1]) THEN R(h, "KeyError", None)
    ELSE path_call(h, dict_get(h.cdict[node], path[1]), Tail(path))

\* NodePath.get(path)
path_get(h, node, path) ==
    Let(path_call(h, node, path), LAMBDA r :
        IF r.err = "KeyError" THEN R(h, Ok, None) ELSE r)

\* ------------------------------------------------------------- path.glob
\* NodePath._is_pattern(segment): the segment holds one of * ? [
is_pattern(segment) == segment \in {"*", "?"}

\* fnmatchcase(str(identifier), segment) for the patterns of the model:
\* "*" matches every identifier, "?" the identifiers of one character
fnmatchcase(identifier, segment) ==
    IF segment = "*" THEN TRUE ELSE identifier # DefaultIdentifier

\* the nodes one candidate contributes for a segment, in the order the
\* comprehension visits them
glob_candidate(h, candidate, segment) ==
    IF segment = "**"
    THEN Let(iter_tree(h, candidate, NoKeep, "pre"), LAMBDA t : [i \in 1..Len(t) |-> t[i].node])
    ELSE IF segment = ""
    THEN IF is_leaf(h, candidate) THEN <<>> ELSE <<candidate>>
    ELSE IF is_pattern(segment)
    THEN SelectSeq(dict_values(h.cdict[candidate]),
                   LAMBDA node : fnmatchcase(h.ident[node], segment))
    ELSE IF dict_contains(h.cdict[candidate], segment)
    THEN <<dict_get(h.cdict[candidate], segment)>>
    ELSE <<>>

RECURSIVE glob_expand(_, _, _)
glob_expand(h, candidates, segment) ==
    IF candidates = <<>> THEN <<>>
    ELSE glob_candidate(h, candidates[1], segment) \o glob_expand(h, Tail(candidates), segment)

\* a list of the visited nodes, one entry per expansion chain
every_chain(nodes) == [i \in 1..Len(nodes) |-> nodes[i]]

\* {id(node): node for node in ...}.values(): one entry per node object, at
\* the position of its first occurrence
by_id(nodes) == dict_values(dict_update(<<>>, [i \in 1..Len(nodes) |-> <<nodes[i], nodes[i]>>]))

RECURSIVE glob_loop(_, _, _)
glob_loop(h, nodes, path) ==
    IF path = <<>> THEN nodes
    ELSE glob_loop(h, by_id(glob_expand(h, nodes, path[1])), Tail(path))

\* NodePath.glob(path)
glob(h, self, path) ==
    IF \E i \in 1..Len(path) : path[i] = "**" /\ desc_diverges(h, self)
    THEN R(h, "hang", None)
    ELSE R(h, Ok, glob_loop(h, <<self>>, path))

\* _create_node attaching the new node without consulting the parent setter:
\* the child map of the parent is not updated
create_node_unlinked(h, identifier, par) ==
    IF FreeNodes(h) = {} THEN R(h, "nomem", None)
    ELSE R([construct(h, identifier) EXCEPT !.parent[FreshNode(h)] = par],
           Ok, FreshNode(h))

\* NodePath._create_node(identifier, parent)
create_node(h, identifier, par) ==
    IF FreeNodes(h) = {} THEN R(h, "nomem", None)
    ELSE Let(set_identifier(construct(h, DefaultIdentifier), FreshNode(h), identifier),
             LAMBDA r1 :
             IF r1.err # Ok THEN r1
             ELSE Let(set_parent(r1.h, FreshNode(h), par), LAMBDA r2 :
                      R(r2.h, r2.err, FreshNode(h))))

\* the second loop of create: one new node per remaining segment
RECURSIVE create_rest(_, _, _)
create_rest(h, node, path) ==
    IF path = <<>> THEN R(h, Ok, node)
    ELSE Let(create_node(h, path[1], node), LAMBDA r :
             IF r.err # Ok THEN r ELSE create_rest(r.h, r.ret, Tail(path)))

\* NodePath.create(path): follow node[segment] until a KeyError, then create
RECURSIVE path_create(_, _, _)
path_create(h, node, path) ==
    IF path = <<>> THEN R(h, Ok, node)
    ELSE IF dict_contains(h.cdict[node], path[1])
    THEN path_create(h, dict_get(h.cdict[node], path[1]), Tail(path))
    ELSE create_rest(h, node, path)

\* ------------------------------------------------------------------ route
\* iter_path: "Yield all nodes from root until itself."
RECURSIVE reversed(_)
reversed(s) == IF s = <<>> THEN <<>> ELSE Append(reversed(Tail(s)), Head(s))

iter_path(h, n) == reversed(iter_ancestors(h, n)) \o <<n>>

\* BaseNode.__eq__: "Trees are equal if they have the same structure": the
\* same object, or the same child keys at self/other and at every pair of
\* descendants reached along the same identifiers (iter_together).
RECURSIVE same_structure(_, _, _, _)
same_structure(h, a, b, fuel) ==
    /\ Range(dict_keys(h.cdict[a])) = Range(dict_keys(h.cdict[b]))
    /\ fuel > 0 =>
          \A i \in 1..Len(h.cdict[a]) :
              same_structure(h, h.cdict[a][i][2],
                             dict_get(h.cdict[b], h.cdict[a][i][1]), fuel - 1)

node_eq(h, a, b) == a = b \/ same_structure(h, a, b, MaxNodes)

\* seq[i] with Python's 0-based index; a negative index counts from the end
py_index(seq, i) == IF i >= 0 THEN seq[i + 1] ELSE seq[Len(seq) + i + 1]

\* Route.__init__(*nodes, check_tree=True): `paths` on success
route_init(h, nodes) ==
    Let([k \in 1..Len(nodes) |-> iter_path(h, nodes[k])], LAMBDA paths :
        IF \E k \in 2..Len(paths) : ~node_eq(h, paths[1][1], paths[k][1])
        THEN R(h, "DifferentTreeError", <<>>)
        ELSE R(h, Ok, paths))

\* NodePath.to: "while n_common < n_max and s_path[n_common] == o_path[n_common]"
RECURSIVE to_loop(_, _, _, _)
to_loop(h, s_path, o_path, n_common) ==
    IF n_common < Len(s_path) /\ n_common < Len(o_path)
       /\ node_eq(h, py_index(s_path, n_common), py_index(o_path, n_common))
    THEN to_loop(h, s_path, o_path, n_common + 1)
    ELSE n_common

\* NodePath.to(other): PathTo(s_path, o_path, n_common) "if n_common", else
\* None; the PathTo object is represented by its n_common
path_to(h, self, other) ==
    Let(to_loop(h, iter_path(h, self), iter_path(h, other), 0), LAMBDA n_common :
        IF n_common # 0 THEN R(h, Ok, n_common) ELSE R(h, Ok, None))

\* all(seq[index] == other[index] for other in other_seqs)
all_equal_at(h, seqs, index) ==
    \A k \in 2..Len(seqs) :
        node_eq(h, py_index(seqs[1], index), py_index(seqs[k], index))

\* the while loop of Route._common
RECURSIVE common_loop(_, _, _, _)
common_loop(h, seqs, lower, upper) ==
    IF upper - lower > 1
    THEN IF all_equal_at(h, seqs, lower + (upper - lower + 1) \div 2)
         THEN common_loop(h, seqs, lower + (upper - lower + 1) \div 2, upper)
         ELSE common_loop(h, seqs, lower, lower + (upper - lower + 1) \div 2)
    ELSE upper

RECURSIVE min_len(_)
min_len(seqs) ==
    IF Len(seqs) = 1 THEN Len(seqs[1])
    ELSE IF Len(seqs[1]) < min_len(Tail(seqs)) THEN Len(seqs[1])
    ELSE min_len(Tail(seqs))

\* Route._common(*seqs)
common(h, seqs) ==
    Let(common_loop(h, seqs, 0, min_len(seqs) - 1), LAMBDA upper :
        IF all_equal_at(h, seqs, upper) THEN upper + 1 ELSE upper)

\* Route._index_paths(index): index is None, an int, a slice (start:stop with
\* 0 <= start, stop, or ::-1), or a list of ints
NoIndex == [kind |-> "none"]

Reverse == [kind |-> "reverse"]

py_slice(seq, start, stop) ==
    SubSeq(seq, start + 1, IF stop < Len(seq) THEN stop ELSE Len(seq))

index_paths(paths, index) ==
    CASE index.kind = "none" -> paths
      [] index.kind = "int" -> <<py_index(paths, index.i), py_index(paths, index.i + 1)>>
      [] index.kind = "slice" -> py_slice(paths, index.start, index.stop)
      [] index.kind = "reverse" -> reversed(paths)
      [] index.kind = "list" -> [k \in 1..Len(index.is) |-> py_index(paths, index.is[k])]

\* Route.lca(index)
lca(h, paths, index) ==
    py_index(index_paths(paths, index)[1], common(h, paths) - 1)

\* Route.iter_lca(index): p1[_common(p1, p2) - 1] for consecutive pairs
RECURSIVE iter_lca_loop(_, _)
iter_lca_loop(h, paths) ==
    IF Len(paths) < 2 THEN <<>>
    ELSE <<py_index(paths[1], common(h, <<paths[1], paths[2]>>) - 1)>>
         \o iter_lca_loop(h, Tail(paths))

iter_lca(h, paths, index) == iter_lca_loop(h, index_paths(paths, index))

\* iter_nodes: "while i >= len(p2) or p1[i] != p2[i]: yield p1[i]; i -= 1"
RECURSIVE walk_up(_, _, _, _)
walk_up(h, p1, p2, i) ==
    IF i >= Len(p2) \/ ~node_eq(h, py_index(p1, i), py_index(p2, i))
    THEN Let(walk_up(h, p1, p2, i - 1), LAMBDA u :
             [u EXCEPT !.out = <<py_index(p1, i)>> \o @])
    ELSE [out |-> <<>>, i |-> i]

\* iter_nodes: "while i < len(p2): yield p2[i]; i += 1"
walk_down(p2, i) == SubSeq(p2, i + 1, Len(p2))

\* the body of the for loop of iter_nodes for one pair (p1, p2)
leg(h, p1, p2, skip) ==
    Let(IF ~skip THEN Len(p1) - 1
        ELSE IF Len(p1) - 1 >= Len(p2)
                \/ ~node_eq(h, py_index(p1, Len(p1) - 1), py_index(p2, Len(p1) - 1))
        THEN Len(p1) - 2
        ELSE Len(p1),
        LAMBDA i :
        IF i < Len(p1)
        THEN Let(walk_up(h, p1, p2, i), LAMBDA u : u.out \o walk_down(p2, u.i))
        ELSE walk_down(p2, i))

RECURSIVE legs(_, _, _)
legs(h, paths, skip) ==
    IF Len(paths) < 2 THEN <<>>
    ELSE leg(h, paths[1], paths[2], skip) \o legs(h, Tail(paths), TRUE)

\* Route.iter_nodes(index)
iter_nodes(h, paths, index) == legs(h, index_paths(paths, index), FALSE)

\* Route.count_edges(index): the sum over consecutive pairs of paths
RECURSIVE count_edges_loop(_, _)
count_edges_loop(h, paths) ==
    IF Len(paths) < 2 THEN 0
    ELSE Len(paths[1]) + Len(paths[2]) - 2 * common(h, <<paths[1], paths[2]>>)
         + count_edges_loop(h, Tail(paths))

count_edges(h, paths, index) == count_edges_loop(h, index_paths(paths, index))

\* __len__ bound to count_edges instead of count_nodes
count_nodes_as_edges(h, paths, index) == count_edges(h, paths, index)

\* Route.count_nodes(index); __len__ = count_nodes
count_nodes(h, paths, index) == count_edges(h, paths, index) + 1

\* ------------------------------------------------------------ state machine
\* `last` records the latest call: its name, its arguments, the exception it
\* raised (Ok when none) and the value it returned.
Call(op, args, r) ==
    [op |-> op, args |-> args, err |-> r.err, ret |-> r.ret, step |-> last.step + 1]

Init ==
    /\ ident = EmptyHeap.ident
    /\ parent = EmptyHeap.parent
    /\ cdict = EmptyHeap.cdict
    /\ alive = {}
    /\ last = [op |-> "init", args |-> <<>>, err |-> Ok, ret |-> None, step |-> 0]

\* The mutation machine makes at most MaxSteps calls.
Running == last.step < MaxSteps

\* An operation that never returns (a walk along a cyclic chain) or that needs
\* more node objects than the model has, or leaves more than MaxLive of them
\* in use, makes no step.
Returns(r) == r.err \notin {"hang", "nomem"}

Record(op, args, r) ==
    /\ ident' = r.h.ident
    /\ parent' = r.h.parent
    /\ cdict' = r.h.cdict
    /\ alive' = r.h.alive
    /\ last' = Call(op, args, r)

Commit(op, args, r) ==
    /\ Returns(r)
    /\ Cardinality(r.h.alive) <= MaxLive
    /\ Record(op, args, r)

\* the batches a caller can pass: sequences of live nodes, and mappings with
\* distinct keys, of 1..max entries
NodeSeqs(S, max) == UNION {[1..k -> S] : k \in 1..max}

Mappings(S, max) ==
    {m \in UNION {[1..k -> Identifiers \X S] : k \in 1..max} :
        \A i, j \in 1..Len(m) : i # j => m[i][1] # m[j][1]}

Batches(S, max) ==
    {[kind |-> "mapping", items |-> m] : m \in Mappings(S, max)}
    \cup {[kind |-> "iterable", nodes |-> q] : q \in NodeSeqs(S, max)}

Sources(S) == Batches(S, MaxBatch) \cup {[kind |-> "node", node |-> n] : n \in S}

NoChildren == [kind |-> "iterable", nodes |-> <<>>]

Paths == UNION {[1..k -> Identifiers] : k \in 0..MaxPath}

New ==
    /\ Running
    /\ \E i \in Identifiers, ch \in {NoChildren} \cup Batches(alive, MaxInit),
          par \in alive \cup {None} :
           Commit("new", [identifier |-> i, children |-> ch, parent |-> par],
                  init_node(Heap, i, ch, par))

SetItem ==
    /\ Running
    /\ \E self \in alive, k \in Identifiers, n \in alive :
           Commit("setitem", [self |-> self, identifier |-> k, node |-> n],
                  setitem(Heap, self, k, n))

AddChild ==
    /\ Running
    /\ \E self \in alive, n \in alive :
           Commit("add_child", [self |-> self, node |-> n], add_child(Heap, self, n))

Pop ==
    /\ Running
    /\ \E self \in alive, k \in Identifiers :
           Commit("pop", [self |-> self, identifier |-> k], pop(Heap, self, k))

DelItem ==
    /\ Running
    /\ \E self \in alive, k \in Identifiers :
           Commit("delitem", [self |-> self, identifier |-> k], delitem(Heap, self, k))

RemoveChild ==
    /\ Running
    /\ \E self \in alive, n \in alive :
           Commit("remove_child", [self |-> self, node |-> n], remove_child(Heap, self, n))

Detach ==
    /\ Running
    /\ \E self \in alive :
           Commit("detach", [self |-> self], detach(Heap, self))

SetIdentifier ==
    /\ Running
    /\ \E self \in alive, k \in Identifiers :
           Commit("identifier", [self |-> self, identifier |-> k],
                  set_identifier(Heap, self, k))

SetParent ==
    /\ Running
    /\ \E self \in alive, p \in alive \cup {None} :
           Commit("parent", [self |-> self, parent |-> p], set_parent(Heap, self, p))

Update ==
    /\ Running
    /\ \E self \in alive, other \in Sources(alive), mode \in {"copy", "detach"} :
           Commit("update", [self |-> self, other |-> other, mode |-> mode],
                  update(Heap, self, other, mode, TRUE))

Clear ==
    /\ Running
    /\ \E self \in alive :
           Commit("clear", [self |-> self], clear(Heap, self))

SortChildren ==
    /\ Running
    /\ \E self \in alive, key \in {"none", "len"}, recursive \in BOOLEAN, reverse \in BOOLEAN :
           Commit("sort_children",
                  [self |-> self, key |-> key, recursive |-> recursive, reverse |-> reverse],
                  sort_children(Heap, self, key, recursive, reverse))

PathCreate ==
    /\ Running
    /\ \E self \in alive, path \in Paths :
           Commit("create", [self |-> self, path |-> path], path_create(Heap, self, path))

Copy ==
    /\ Running
    /\ \E self \in alive :
           Commit("copy", [self |-> self], copy(Heap, self))

Next ==
    \/ New \/ SetItem \/ AddChild \/ Pop \/ DelItem \/ RemoveChild \/ Detach
    \/ SetIdentifier \/ SetParent \/ Update \/ Clear \/ SortChildren
    \/ PathCreate \/ Copy

Spec == Init /\ [][Next]_vars

\* ------------------------------------------------------- queries on trees
\* The second machine: a forest built by BaseNode(identifier, parent=...)
\* calls, then one call of a traversal, copy or route operation.  Nodes are
\* numbered in construction order (a parent before its children), the k-th
\* child of a node is created with the k-th identifier.
ChildIdentifier(k) ==
    CASE k = 1 -> "a" [] k = 2 -> "b" [] k = 3 -> "c" [] k = 4 -> "d" [] OTHER -> "e"

ParentMaps(N) == {f \in [1..N -> 0..(N - 1)] : \A n \in 1..N : f[n] < n}

RECURSIVE ordered(_)
ordered(S) ==
    IF S = {} THEN <<>>
    ELSE Let(CHOOSE x \in S : \A y \in S : x <= y, LAMBDA x : <<x>> \o ordered(S \ {x}))

ChildrenOf(f, N, p) == ordered({c \in 1..N : f[c] = p})

Position(seq, x) == CHOOSE i \in 1..Len(seq) : seq[i] = x

TreeHeap(f, N) ==
    [ident |-> [n \in Nodes |->
                  IF n <= N /\ f[n] # None
                  THEN ChildIdentifier(Position(ChildrenOf(f, N, f[n]), n))
                  ELSE DefaultIdentifier],
     parent |-> [n \in Nodes |-> IF n <= N THEN f[n] ELSE None],
     cdict |-> [n \in Nodes |->
                  IF n <= N
                  THEN [i \in 1..Len(ChildrenOf(f, N, n)) |->
                          <<ChildIdentifier(i), ChildrenOf(f, N, n)[i]>>]
                  ELSE <<>>],
     alive |-> 1..N]

InitTree ==
    \E N \in 1..TreeSize : \E f \in ParentMaps(N) :
        /\ ident = TreeHeap(f, N).ident
        /\ parent = TreeHeap(f, N).parent
        /\ cdict = TreeHeap(f, N).cdict
        /\ alive = TreeHeap(f, N).alive
        /\ last = [op |-> "init", args |-> <<>>, err |-> Ok, ret |-> None, step |-> 0]

\* keep predicates: none, a set of accepted nodes, a depth limit, an index limit
Keeps(S) ==
    {NoKeep}
    \cup {[kind |-> "nodes", acc |-> A] : A \in SUBSET S}
    \cup {[kind |-> "depth", d |-> k] : k \in 0..2}
    \cup {[kind |-> "index", i |-> k] : k \in 0..1}

Orders == {"pre", "post", "level"}

Waypoints(S) == UNION {[1..k -> S] : k \in 2..MaxWaypoints}

Built == last.op = "init"

Answer(op, args, r) == Returns(r) /\ Record(op, args, r)

IterTree ==
    /\ Built
    /\ \E self \in alive, keep \in Keeps(alive), order \in Orders :
           Answer("iter_tree", [self |-> self, keep |-> keep, order |-> order],
                  R(Heap, Ok, iter_tree(Heap, self, keep, order)))

IterDescendants ==
    /\ Built
    /\ \E self \in alive, keep \in Keeps(alive), order \in Orders :
           Answer("iter_descendants", [self |-> self, keep |-> keep, order |-> order],
                  R(Heap, Ok, iter_descendants(Heap, self, keep, order)))

CopyTree ==
    /\ Built
    /\ \E self \in alive :
           Answer("copy", [self |-> self], copy(Heap, self))

RouteLca ==
    /\ Built
    /\ \E nodes \in Waypoints(alive) :
           Answer("lca", [nodes |-> nodes],
                  Let(route_init(Heap, nodes), LAMBDA route :
                      IF route.err # Ok THEN route
                      ELSE R(Heap, Ok, lca(Heap, route.ret, NoIndex))))

RouteIter ==
    /\ Built
    /\ \E nodes \in Waypoints(alive) :
           Answer("iter_nodes", [nodes |-> nodes],
                  Let(route_init(Heap, nodes), LAMBDA route :
                      IF route.err # Ok THEN route
                      ELSE R(Heap, Ok, iter_nodes(Heap, route.ret, NoIndex))))

\* reversed(route): Route.__reversed__
RouteReversed ==
    /\ Built
    /\ \E nodes \in Waypoints(alive) :
           Answer("reversed", [nodes |-> nodes],
                  Let(route_init(Heap, nodes), LAMBDA route :
                      IF route.err # Ok THEN route
                      ELSE R(Heap, Ok, iter_nodes(Heap, route.ret, Reverse))))

\* the indexes that select at least one of n waypoints: an int i (waypoints
\* i and i+1), a slice start:stop, a list of two positions
Indexes(n) ==
    {[kind |-> "int", i |-> i] : i \in 0..(n - 2)}
    \cup {[kind |-> "slice", start |-> r[1], stop |-> r[2]] :
            r \in {q \in (0..(n - 1)) \X (1..n) : q[1] < q[2]}}
    \cup {[kind |-> "list", is |-> <<a, b>>] : a \in 0..(n - 1), b \in 0..(n - 1)}

\* route.lca(index)
RouteLcaIndex ==
    /\ Built
    /\ \E nodes \in Waypoints(alive) : \E index \in Indexes(Len(nodes)) :
           Answer("lca_index", [nodes |-> nodes, index |-> index],
                  Let(route_init(Heap, nodes), LAMBDA route :
                      IF route.err # Ok THEN route
                      ELSE R(Heap, Ok, lca(Heap, route.ret, index))))

IterLevels ==
    /\ Built
    /\ \E self \in alive :
           Answer("iter_levels", [self |-> self], iter_levels(Heap, self))

\* routes through one or more waypoints
Routes(S) == UNION {[1..k -> S] : k \in 1..MaxWaypoints}

RouteLen ==
    /\ Built
    /\ \E nodes \in Routes(alive) :
           Answer("len", [nodes |-> nodes],
                  Let(route_init(Heap, nodes), LAMBDA route :
                      IF route.err # Ok THEN route
                      ELSE R(Heap, Ok, count_nodes(Heap, route.ret, NoIndex))))

PathCall ==
    /\ Built
    /\ \E self \in alive, path \in Paths :
           Answer("path", [self |-> self, path |-> path], path_call(Heap, self, path))

PathGet ==
    /\ Built
    /\ \E self \in alive, path \in Paths :
           Answer("path.get", [self |-> self, path |-> path], path_get(Heap, self, path))

\* glob patterns: up to MaxGlob segments, each "**", "", a wildcard or a name
GlobSegments == {"**", "", "*", "?"} \cup Identifiers

Patterns == UNION {[1..k -> GlobSegments] : k \in 0..MaxGlob}

PathGlob ==
    /\ Built
    /\ \E self \in alive, path \in Patterns :
           Answer("glob", [self |-> self, path |-> path], glob(Heap, self, path))

\* Route(*nodes)._common(*route._paths), for one or more waypoints
RouteCommon ==
    /\ Built
    /\ \E nodes \in Routes(alive) :
           Answer("common", [nodes |-> nodes],
                  Let(route_init(Heap, nodes), LAMBDA route :
                      IF route.err # Ok THEN route
                      ELSE R(Heap, Ok, common(Heap, route.ret))))

PathTo ==
    /\ Built
    /\ \E self \in alive, other \in alive :
           Answer("to", [self |-> self, other |-> other], path_to(Heap, self, other))

NextTree ==
    \/ IterTree \/ IterDescendants \/ CopyTree \/ RouteLca \/ RouteIter \/ RouteLen
    \/ PathCall \/ PathGet \/ PathGlob \/ PathTo \/ RouteCommon \/ RouteReversed
    \/ RouteLcaIndex \/ IterLevels

SpecTree == InitTree /\ [][NextTree]_vars

\* ------------------------------------------------- queries on the world tree
\* The third machine: the tree of the tests' setUp,
\*   world -> {Europe -> {Norway -> Oslo, Sweden -> Stockholm}, Africa},
\* built by path.create on a new root, then one traversal or route call.
WorldHeap ==
    Let(construct(EmptyHeap, "world"), LAMBDA h0 :
    Let(path_create(h0, FreshNode(EmptyHeap), <<"Europe", "Norway", "Oslo">>).h, LAMBDA h1 :
    Let(path_create(h1, FreshNode(EmptyHeap), <<"Europe", "Sweden", "Stockholm">>).h, LAMBDA h2 :
        path_create(h2, FreshNode(EmptyHeap), <<"Africa">>).h)))

World == FreshNode(EmptyHeap)

WorldNode(path) == path_call(WorldHeap, World, path).ret

InitWorld ==
    /\ ident = WorldHeap.ident
    /\ parent = WorldHeap.parent
    /\ cdict = WorldHeap.cdict
    /\ alive = WorldHeap.alive
    /\ last = [op |-> "init", args |-> <<>>, err |-> Ok, ret |-> None, step |-> 0]

NextWorld == IterTree \/ IterDescendants \/ RouteLca \/ RouteIter \/ RouteLen

SpecWorld == InitWorld /\ [][NextWorld]_vars

\* ------------------------------------------------- structural invariants
\* every entry k -> c of p's child map has c.identifier = k and c.parent = p
ChildrenPointBack(h) ==
    \A p \in h.alive : \A i \in 1..Len(h.cdict[p]) :
        /\ h.ident[h.cdict[p][i][2]] = h.cdict[p][i][1]
        /\ h.parent[h.cdict[p][i][2]] = p

\* every node with parent p is in p's child map exactly once, under its identifier
ParentsHoldChild(h) ==
    \A c \in h.alive : h.parent[c] # None =>
        /\ Cardinality({i \in 1..Len(h.cdict[h.parent[c]]) :
                            h.cdict[h.parent[c]][i][2] = c}) = 1
        /\ dict_get(h.cdict[h.parent[c]], h.ident[c]) = c

Consistent(h) == ChildrenPointBack(h) /\ ParentsHoldChild(h)

\* no node is its own parent, ancestor or descendant
Acyclic(h) == \A n \in h.alive : ~anc_diverges(h, n) /\ ~desc_diverges(h, n)

WellFormed(h) == Consistent(h) /\ Acyclic(h)

\* ---------------------------------------------------------------- claims
\* C1: parent/child consistency holds in every state reachable by any
\* sequence of mutations: every child-map entry k -> c of p has
\* c.identifier = k and c.parent = p, and every node whose parent is p is in
\* p's child map exactly once, under its own identifier.
C1_ParentChildConsistency == Consistent(Heap)

\* C2: acyclicity holds in every reachable state: no node is its own parent,
\* ancestor or descendant, and every parent chain ends at a parentless root.
C2_Acyclicity == Acyclic(Heap)

\* the candidates of an update's argument
candidates(other) ==
    CASE other.kind = "mapping" -> Range(dict_values(other.items))
      [] other.kind = "iterable" -> Range(other.nodes)
      [] other.kind = "node" -> {other.node}

\* the node(s) the latest call tried to attach
targets(c) ==
    CASE c.op \in {"setitem", "add_child"} -> {c.args.node}
      [] c.op = "update" -> candidates(c.args.other)
      [] OTHER -> {}

\* C3: on a well-formed tree, node[id] = target, add_child(target) or an update
\* with target among the candidates, where target is an ancestor of the
\* receiving node, raises LoopError and leaves every parent link, child map
\* and identifier as before the call.
C3_LoopErrorLeavesTreeUnchanged ==
    [][(/\ WellFormed(Heap)
        /\ last'.op \in {"setitem", "add_child", "update"}
        /\ targets(last') \cap Range(iter_ancestors(Heap, last'.args.self)) # {})
       => (last'.err = "LoopError" /\ Heap' = Heap)]_vars

\* ---- the reference notions the traversal, copy and route claims use
\* the nodes of n's subtree: n and its descendants, by parent links
Subtree(h, n) == {m \in h.alive : n \in Range(iter_path(h, m))}

\* the (index, depth) item of m in a traversal called on `self`
ItemOf(h, self, m) ==
    IF m = self THEN NodeItem(self, 0, 0)
    ELSE NodeItem(m, dict_index(h.cdict[h.parent[m]], h.ident[m]) - 1,
                  Len(iter_path(h, m)) - Len(iter_path(h, self)))

\* the nodes from `self` (excluded) down to m (included)
Below(h, self, m) == (Subtree(h, self) \cap Range(iter_path(h, m))) \ {self}

NodesOf(items) == [i \in 1..Len(items) |-> items[i].node]

NoRepeats(seq) == \A i, j \in 1..Len(seq) : seq[i] = seq[j] => i = j

\* C4: for every tree, call root and keep predicate, the iterative postorder
\* yields exactly the sequence of (node, (index, depth)) pairs of the
\* recursive reference postorder (iter_tree: followed by the call root).
C4_PostorderMatchesReference ==
    /\ (last.op = "iter_descendants" /\ last.args.order = "post") =>
          last.ret = iter_descendants_post_rec(Heap, last.args.self, last.args.keep)
    /\ (last.op = "iter_tree" /\ last.args.order = "post") =>
          last.ret = IF keep_call(last.args.keep, NodeItem(last.args.self, 0, 0))
                     THEN iter_descendants_post_rec(Heap, last.args.self, last.args.keep)
                          \o <<NodeItem(last.args.self, 0, 0)>>
                     ELSE <<>>

\* a postorder call whose keep rejects an inner node and that yielded a
\* parent after its children
C4_Witness ==
    /\ last.op = "iter_descendants" /\ last.args.order = "post"
    /\ last.args.keep.kind = "nodes"
    /\ \E m \in Subtree(Heap, last.args.self) \ {last.args.self} :
          m \notin last.args.keep.acc /\ ~is_leaf(Heap, m)
    /\ \E i, j \in 1..Len(last.ret) :
          i < j /\ parent[last.ret[i].node] = last.ret[j].node

\* C5: without keep, iter_tree in each order yields every node of the call
\* root's subtree exactly once, so its count is 1 + count_descendants(), and
\* the three orders yield the same set of nodes.
C5_TraversalComplete ==
    (last.op = "iter_tree" /\ last.args.keep = NoKeep) =>
        /\ NoRepeats(NodesOf(last.ret))
        /\ Range(NodesOf(last.ret)) = Subtree(Heap, last.args.self)
        /\ Len(last.ret) = 1 + count_descendants(Heap, last.args.self)
        /\ \A order \in Orders :
              Range(NodesOf(iter_tree(Heap, last.args.self, NoKeep, order)))
                  = Range(NodesOf(last.ret))

\* an unpruned postorder iter_tree over a subtree with a grandchild
C5_Witness ==
    /\ last.op = "iter_tree" /\ last.args.keep = NoKeep /\ last.args.order = "post"
    /\ Len(last.ret) >= 4
    /\ \E i \in 1..Len(last.ret) : last.ret[i].depth = 2

\* C6: iter_tree and iter_descendants, in each order, yield a node if and
\* only if keep accepts it and every node between it and the call root (for
\* iter_tree the call root too, with item (0, 0)), each such node once.
C6_Pruning ==
    (last.op \in {"iter_tree", "iter_descendants"}) =>
        /\ NoRepeats(NodesOf(last.ret))
        /\ Range(NodesOf(last.ret)) =
              {m \in Subtree(Heap, last.args.self) :
                  /\ last.op = "iter_descendants" => m # last.args.self
                  /\ last.op = "iter_tree" =>
                        keep_call(last.args.keep, NodeItem(last.args.self, 0, 0))
                  /\ \A x \in Below(Heap, last.args.self, m) :
                        keep_call(last.args.keep, ItemOf(Heap, last.args.self, x))}

\* a level-order call where keep rejects a node and would accept its child
C6_Witness ==
    /\ last.op = "iter_descendants" /\ last.args.order = "level"
    /\ \E m \in Subtree(Heap, last.args.self) \ {last.args.self} :
          /\ parent[m] # last.args.self
          /\ keep_call(last.args.keep, ItemOf(Heap, last.args.self, m))
          /\ ~keep_call(last.args.keep, ItemOf(Heap, last.args.self, parent[m]))
          /\ m \notin Range(NodesOf(last.ret))
    /\ last.ret # <<>>

\* same identifier, same child keys in the same order, at every level
RECURSIVE SameShape(_, _, _, _)
SameShape(h, a, b, fuel) ==
    /\ h.ident[a] = h.ident[b]
    /\ dict_keys(h.cdict[a]) = dict_keys(h.cdict[b])
    /\ fuel > 0 =>
          \A i \in 1..Len(h.cdict[a]) :
              SameShape(h, h.cdict[a][i][2], h.cdict[b][i][2], fuel - 1)

\* C7: n.copy() returns a new parentless tree with the identifiers and the
\* child order of n's subtree at every level, built from fresh nodes only,
\* and leaves the original tree, n's parent link included, unchanged.
C7_CopyRoundTrip ==
    [][(last'.op = "copy") =>
        /\ last'.err = Ok
        /\ last'.ret \in alive' \ alive
        /\ parent'[last'.ret] = None
        /\ Subtree(Heap', last'.ret) = alive' \ alive
        /\ SameShape(Heap', last'.args.self, last'.ret, MaxNodes)
        /\ WellFormed(Heap')
        /\ \A n \in alive :
              ident'[n] = ident[n] /\ parent'[n] = parent[n] /\ cdict'[n] = cdict[n]]_vars

\* a copy of a non-root node with two children
C7_Witness ==
    /\ last.op = "copy" /\ last.err = Ok
    /\ parent[last.args.self] # None
    /\ Len(cdict[last.args.self]) = 2
    /\ Len(cdict[last.ret]) = 2

\* the number of leading segments of path that resolve from node
RECURSIVE resolved(_, _, _)
resolved(h, node, path) ==
    IF path = <<>> \/ ~dict_contains(h.cdict[node], path[1]) THEN 0
    ELSE 1 + resolved(h, dict_get(h.cdict[node], path[1]), Tail(path))

Prefix(path, k) == SubSeq(path, 1, k)

\* C8: path.create(p) returns a node n with path(p) = n afterwards; the nodes
\* that existed along p are reused and one node per missing segment is
\* created, nothing else changes; path.create of p again, or of any prefix
\* of p, returns the existing node and leaves the tree unchanged.
C8_PathCreateIdempotent ==
    [][(last'.op = "create") =>
        /\ last'.err = Ok
        /\ path_call(Heap', last'.args.self, last'.args.path) = R(Heap', Ok, last'.ret)
        /\ \A k \in 0..resolved(Heap, last'.args.self, last'.args.path) :
              path_call(Heap', last'.args.self, Prefix(last'.args.path, k)).ret
                  = path_call(Heap, last'.args.self, Prefix(last'.args.path, k)).ret
        /\ alive \subseteq alive'
        /\ Cardinality(alive' \ alive)
              = Len(last'.args.path) - resolved(Heap, last'.args.self, last'.args.path)
        /\ \A n \in alive :
              /\ ident'[n] = ident[n]
              /\ parent'[n] = parent[n]
              /\ \/ cdict'[n] = cdict[n]
                 \/ /\ alive' # alive
                    /\ n = path_call(Heap, last'.args.self,
                                     Prefix(last'.args.path,
                                            resolved(Heap, last'.args.self,
                                                     last'.args.path))).ret
                    /\ Len(cdict'[n]) = Len(cdict[n]) + 1
                    /\ SubSeq(cdict'[n], 1, Len(cdict[n])) = cdict[n]
        /\ \A k \in 0..Len(last'.args.path) :
              path_create(Heap', last'.args.self, Prefix(last'.args.path, k))
                  = path_call(Heap', last'.args.self, Prefix(last'.args.path, k))]_vars

\* a create of a two-segment path that reused the first segment's node and
\* made a new node for the second
C8_Witness ==
    /\ last.op = "create" /\ last.err = Ok /\ Len(last.args.path) = 2
    /\ WellFormed(Heap)
    /\ last.ret = Cardinality(alive)
    /\ last.ret \notin {last.args.self, parent[last.args.self]}
    /\ parent[last.ret] < last.ret - 1
    /\ parent[parent[last.ret]] = last.args.self

\* ---- route: the reference notions, by object identity
RECURSIVE common_prefix(_, _)
common_prefix(p, q) ==
    IF p = <<>> \/ q = <<>> \/ Head(p) # Head(q) THEN 0
    ELSE 1 + common_prefix(Tail(p), Tail(q))

\* up from a to the deepest common node of a and b, then down to b
ShortestWalk(h, a, b) ==
    reversed(SubSeq(iter_path(h, a), common_prefix(iter_path(h, a), iter_path(h, b)),
                    Len(iter_path(h, a))))
    \o SubSeq(iter_path(h, b), common_prefix(iter_path(h, a), iter_path(h, b)) + 1,
              Len(iter_path(h, b)))

RECURSIVE WalkThrough(_, _)
WalkThrough(h, nodes) ==
    IF Len(nodes) = 2 THEN ShortestWalk(h, nodes[1], nodes[2])
    ELSE ShortestWalk(h, nodes[1], nodes[2]) \o Tail(WalkThrough(h, Tail(nodes)))

SameTree(h, nodes) == \A k \in 1..Len(nodes) : root(h, nodes[k]) = root(h, nodes[1])

\* C9: for nodes a and b of the same tree, Route(a, b).lca() is the deepest
\* node lying on both the root-to-a and the root-to-b path.
C9_LcaIsDeepestCommonNode ==
    (last.op = "lca" /\ Len(last.args.nodes) = 2 /\ SameTree(Heap, last.args.nodes)) =>
        /\ last.err = Ok
        /\ last.ret = iter_path(Heap, last.args.nodes[1])[
                          common_prefix(iter_path(Heap, last.args.nodes[1]),
                                        iter_path(Heap, last.args.nodes[2]))]

\* C10: iterating Route(w1, ..., wk) over waypoints of one tree yields the
\* walk from w1 to wk through the waypoints in order: between consecutive
\* waypoints up to their LCA and then down, a shared waypoint emitted once.
C10_RouteIsShortestWalk ==
    (last.op = "iter_nodes" /\ SameTree(Heap, last.args.nodes)) =>
        /\ last.err = Ok
        /\ last.ret = WalkThrough(Heap, last.args.nodes)

\* the route of the end-to-end scenario: from Oslo to Africa
OsloToAfrica ==
    <<WorldNode(<<"Europe", "Norway", "Oslo">>), WorldNode(<<"Africa">>)>>

\* C11 as stated: in the world tree the route from Oslo to Africa, whose
\* nodes are [Oslo, Norway, Europe, world, Africa], has len(route) = 4.
C11_RouteLenIsFour ==
    (last.op = "len" /\ last.args.nodes = OsloToAfrica) => last.ret = 4

\* C11 amended: len(route) counts the nodes of the route: for Oslo to Africa
\* it is 5, the number of nodes [Oslo, Norway, Europe, world, Africa]; the
\* number of edges, count_edges(), is 4.
C11_RouteLenCountsNodes ==
    (last.op = "len" /\ last.args.nodes = OsloToAfrica) =>
        /\ last.err = Ok
        /\ last.ret = 5
        /\ iter_nodes(Heap, route_init(Heap, OsloToAfrica).ret, NoIndex)
               = <<WorldNode(<<"Europe", "Norway", "Oslo">>),
                   WorldNode(<<"Europe", "Norway">>),
                   WorldNode(<<"Europe">>),
                   World,
                   WorldNode(<<"Africa">>)>>
        /\ last.ret = Len(iter_nodes(Heap, route_init(Heap, OsloToAfrica).ret, NoIndex))
        /\ count_edges(Heap, route_init(Heap, OsloToAfrica).ret, NoIndex) = 4

C11_Witness ==
    /\ last.op = "len" /\ last.args.nodes = OsloToAfrica /\ last.err = Ok
    /\ Cardinality(alive) = 7
    /\ parent[WorldNode(<<"Africa">>)] = World

\* ---- single-node mutations: what a call is to leave behind
\* the call just made, and its arguments
Did(op) == last'.op = op

Failed(e) == last'.err = e /\ Heap' = Heap

\* nothing changes outside the listed nodes: P for parent links, I for
\* identifiers, D for child maps; no node appears or disappears
Frame(P, I, D) ==
    /\ alive' = alive
    /\ \A n \in Nodes \ P : parent'[n] = parent[n]
    /\ \A n \in Nodes \ I : ident'[n] = ident[n]
    /\ \A n \in Nodes \ D : cdict'[n] = cdict[n]

\* self[id] = node went through: the occupant of id (if any) is evicted and
\* keeps its subtree, node is stored under id with identifier id and parent self
Stored(self, id, node) ==
    /\ last'.err = Ok
    /\ cdict'[self] = dict_setitem(cdict[self], id, node)
    /\ ident'[node] = id
    /\ parent'[node] = self
    /\ \A occ \in Nodes \ {node} :
           dict_get(cdict[self], id) = occ => parent'[occ] = None
    /\ Frame({node, dict_get(cdict[self], id)}, {node}, {self})

\* C12: self[id] = node fails with DuplicateParentError if node already has
\* a parent (unless node is already the child stored under id: nothing to
\* do); otherwise with LoopError if node is self or an ancestor of self;
\* otherwise it evicts the occupant of id, which keeps its subtree, stores
\* node under id and sets node.identifier = id and node.parent = self; a
\* failed call changes nothing.
C12_SetChild ==
    [][Did("setitem") =>
         IF parent[last'.args.node] # None
         THEN IF dict_get(cdict[last'.args.self], last'.args.identifier) = last'.args.node
              THEN Failed(Ok)
              ELSE Failed("DuplicateParentError")
         ELSE IF last'.args.node
                    \in Range(iter_ancestors(Heap, last'.args.self)) \cup {last'.args.self}
         THEN Failed("LoopError")
         ELSE Stored(last'.args.self, last'.args.identifier, last'.args.node)]_vars

\* C13: add_child(node) raises DuplicateParentError when node already has a
\* parent, raises DuplicateChildError when node is standalone but the receiver
\* already has a child with node's identifier, and changes nothing in both
\* cases; otherwise it either refuses a loop or makes node the last child of
\* the receiver, with its identifier kept and the receiver as its parent.
C13_AddChild ==
    [][Did("add_child") =>
         IF parent[last'.args.node] # None
         THEN Failed("DuplicateParentError")
         ELSE IF dict_contains(cdict[last'.args.self], ident[last'.args.node])
         THEN Failed("DuplicateChildError")
         ELSE \/ Failed("LoopError")
              \/ /\ last'.err = Ok
                 /\ cdict'[last'.args.self]
                       = Append(cdict[last'.args.self],
                                <<ident[last'.args.node], last'.args.node>>)
                 /\ parent'[last'.args.node] = last'.args.self
                 /\ Frame({last'.args.node}, {}, {last'.args.self})]_vars

\* a standalone node was added to a receiver that already had a child
C13_Witness ==
    /\ last.op = "add_child" /\ last.err = Ok
    /\ WellFormed(Heap)
    /\ Len(cdict[last.args.self]) >= 2
    /\ cdict[last.args.self][Len(cdict[last.args.self])][2] = last.args.node
    /\ parent[last.args.node] = last.args.self

\* node n left its parent: the parent's child map lost exactly the entry of
\* n, n's parent link is none, and nothing else changed (n keeps its
\* identifier and its subtree); without parent nothing changes at all
Detached(n) ==
    /\ last'.err = Ok
    /\ parent'[n] = None
    /\ IF parent[n] = None THEN Heap' = Heap
       ELSE /\ cdict'[parent[n]] = SelectSeq(cdict[parent[n]], LAMBDA e : e[2] # n)
            /\ Len(cdict'[parent[n]]) = Len(cdict[parent[n]]) - 1
            /\ Frame({n}, {}, {parent[n]})

\* C14: detach() removes the node from its parent's child map, clears its
\* parent link, returns the node and changes nothing else; on a node without
\* parent it is a no-op.  remove_child(node) does the same when node's parent
\* is the receiver and otherwise raises an error without changing anything.
C14_DetachFrame ==
    [][/\ Did("detach") => (Detached(last'.args.self) /\ last'.ret = last'.args.self)
       /\ Did("remove_child") =>
              IF parent[last'.args.node] = last'.args.self
              THEN Detached(last'.args.node)
              ELSE Failed("ValueError")]_vars

\* C15: after update from a mapping, in mode 'copy' or 'detach', every key k
\* of the mapping names a child of the receiver whose identifier is k and
\* whose parent is the receiver.
C15_MappingKeysBecomeIdentifiers ==
    [][(Did("update") /\ last'.args.other.kind = "mapping" /\ last'.err = Ok) =>
          \A i \in 1..Len(last'.args.other.items) :
              /\ dict_contains(cdict'[last'.args.self], last'.args.other.items[i][1])
              /\ ident'[dict_get(cdict'[last'.args.self], last'.args.other.items[i][1])]
                     = last'.args.other.items[i][1]
              /\ parent'[dict_get(cdict'[last'.args.self], last'.args.other.items[i][1])]
                     = last'.args.self]_vars

\* the <<key, node>> pairs an update is to merge into the receiver: the
\* items of a mapping, the nodes of an iterable under their own identifiers,
\* the children of a node source
merged(other) ==
    CASE other.kind = "mapping" -> other.items
      [] other.kind = "iterable" ->
             [i \in 1..Len(other.nodes) |-> <<ident[other.nodes[i]], other.nodes[i]>>]
      [] other.kind = "node" -> cdict[other.node]

\* C16: update with source nodes that already have a parent.  Mode 'copy':
\* the receiver gets a fresh copy under the source's key and the original is
\* untouched: parent, identifier, place among its siblings and subtree.  Mode
\* 'detach': the original leaves its old parent and becomes the receiver's
\* child; a node source ends up a leaf.  (Stated for a well-formed tree, for
\* candidates that are neither the receiver nor one of its ancestors, under
\* distinct keys none of which the receiver holds yet.)
C16_UpdateCopyOrDetach ==
    [][(/\ Did("update") /\ last'.err = Ok /\ WellFormed(Heap)
        /\ candidates(last'.args.other)
              \cap (Range(iter_ancestors(Heap, last'.args.self)) \cup {last'.args.self}) = {}
        /\ \A i, j \in 1..Len(merged(last'.args.other)) :
               i # j => merged(last'.args.other)[i][1] # merged(last'.args.other)[j][1]
        /\ \A i \in 1..Len(merged(last'.args.other)) :
               ~dict_contains(cdict[last'.args.self], merged(last'.args.other)[i][1]))
       =>
          \A i \in 1..Len(merged(last'.args.other)) :
              parent[merged(last'.args.other)[i][2]] # None
              =>
              IF last'.args.mode = "copy"
              THEN /\ parent'[merged(last'.args.other)[i][2]]
                         = parent[merged(last'.args.other)[i][2]]
                   /\ ident'[merged(last'.args.other)[i][2]]
                         = ident[merged(last'.args.other)[i][2]]
                   /\ cdict'[merged(last'.args.other)[i][2]]
                         = cdict[merged(last'.args.other)[i][2]]
                   /\ \A k \in 1..Len(cdict[parent[merged(last'.args.other)[i][2]]]) :
                         cdict'[parent[merged(last'.args.other)[i][2]]][k]
                            = cdict[parent[merged(last'.args.other)[i][2]]][k]
                   /\ dict_get(cdict'[last'.args.self], merged(last'.args.other)[i][1])
                         \in alive' \ alive
              ELSE /\ parent'[merged(last'.args.other)[i][2]] = last'.args.self
                   /\ merged(last'.args.other)[i][2]
                         \in Range(dict_values(cdict'[last'.args.self]))
                   /\ parent[merged(last'.args.other)[i][2]] # last'.args.self =>
                         merged(last'.args.other)[i][2]
                            \notin Range(dict_values(
                                      cdict'[parent[merged(last'.args.other)[i][2]]]))
                   /\ last'.args.other.kind = "node" =>
                         cdict'[last'.args.other.node] = <<>>]_vars

\* C17: update validates the whole batch before any destructive edit:
\* whenever a call on a well-formed tree raises LoopError, no parent link,
\* child map or identifier has changed; no source node has been detached.
C17_UpdatePrevalidates ==
    [][(Did("update") /\ WellFormed(Heap) /\ last'.err = "LoopError") => Heap' = Heap]_vars

\* C18: node.identifier = new on a node with a parent (in a well-formed
\* tree) raises DuplicateChildError, changing nothing, if and only if another
\* child of the same parent holds the new identifier; otherwise the parent's
\* child map holds the node under the new identifier and no longer under the
\* old one, the other children keep their order, and no parent link changes.
C18_Rename ==
    [][(Did("identifier") /\ WellFormed(Heap) /\ parent[last'.args.self] # None) =>
         IF dict_get(cdict[parent[last'.args.self]], last'.args.identifier)
               \notin {None, last'.args.self}
         THEN Failed("DuplicateChildError")
         ELSE /\ last'.err = Ok
              /\ dict_get(cdict'[parent[last'.args.self]], last'.args.identifier)
                     = last'.args.self
              /\ ident'[last'.args.self] = last'.args.identifier
              /\ Len(cdict'[parent[last'.args.self]]) = Len(cdict[parent[last'.args.self]])
              /\ SelectSeq(cdict'[parent[last'.args.self]], LAMBDA e : e[2] # last'.args.self)
                   = SelectSeq(cdict[parent[last'.args.self]], LAMBDA e : e[2] # last'.args.self)
              /\ Frame({}, {last'.args.self}, {parent[last'.args.self]})]_vars

\* the nodes whose child order a sort_children call may touch
Affected(h, self, recursive) ==
    IF recursive THEN {self} \cup {d.node : d \in Range(iter_descendants_pre(h, self, NoKeep))}
    ELSE {self}

\* the sort key of a child-map entry: the identifier it is stored under, or
\* the number of children of the node
KeyOf(h, key, e) == IF key = "none" THEN IdRank(e[1]) ELSE Len(h.cdict[e[2]])

\* after is before in key order (descending when reverse), equal keys in
\* their order in before
StablySorted(h, before, after, key, reverse) ==
    /\ Len(after) = Len(before)
    /\ Range(after) = Range(before)
    /\ \A i, j \in 1..Len(after) : i < j =>
          IF KeyOf(h, key, after[i]) = KeyOf(h, key, after[j])
          THEN \E k, l \in 1..Len(before) :
                   k < l /\ before[k] = after[i] /\ before[l] = after[j]
          ELSE IF reverse THEN KeyOf(h, key, after[i]) > KeyOf(h, key, after[j])
          ELSE KeyOf(h, key, after[i]) < KeyOf(h, key, after[j])

\* C19: sort_children(key, recursive, reverse) only permutes child order:
\* every node keeps the same children under the same identifiers and no
\* parent link changes; afterwards the children of the receiver (and of every
\* descendant when recursive) are ordered by key (by identifier without a
\* key), descending when reverse, children with equal keys in their previous
\* order.
C19_SortChildren ==
    [][Did("sort_children") =>
         /\ last'.err = Ok
         /\ parent' = parent /\ ident' = ident /\ alive' = alive
         /\ \A n \in Nodes :
               IF n \in Affected(Heap, last'.args.self, last'.args.recursive)
               THEN StablySorted(Heap, cdict[n], cdict'[n],
                                 last'.args.key, last'.args.reverse)
               ELSE cdict'[n] = cdict[n]]_vars

\* the walks from self along path: each node the child stored under the next
\* segment in the child map of the one before
Walks(h, self, path) ==
    {w \in [1..(Len(path) + 1) -> h.alive] :
        /\ w[1] = self
        /\ \A i \in 1..Len(path) : dict_get(h.cdict[w[i]], path[i]) = w[i + 1]}

\* C20: path(segments) returns the node reached from the start node by exact
\* identifier lookup at each level (the start node for an empty sequence) and
\* fails with KeyError when a segment is absent, returning nothing;
\* path.get(segments) returns the same node when path(segments) succeeds and
\* None exactly when it fails; neither call changes the tree.
C20_PathLookup ==
    [][(Did("path") \/ Did("path.get")) =>
         /\ Heap' = Heap
         /\ IF Walks(Heap, last'.args.self, last'.args.path) = {}
            THEN /\ last'.ret = None
                 /\ last'.err = IF Did("path") THEN "KeyError" ELSE Ok
            ELSE /\ last'.err = Ok
                 /\ \E w \in Walks(Heap, last'.args.self, last'.args.path) :
                        last'.ret = w[Len(w)]]_vars

C20_Witness ==
    /\ last.op = "path"
    /\ last.err = "KeyError"
    /\ Len(last.args.path) = 2
    /\ dict_contains(cdict[last.args.self], last.args.path[1])

\* the set of nodes a pattern denotes: the candidates after each segment
SegmentMatches(h, S, segment) ==
    IF segment = "**" THEN UNION {Subtree(h, c) : c \in S}
    ELSE IF segment = "" THEN {c \in S : h.cdict[c] # <<>>}
    ELSE IF segment = "*" THEN {m \in h.alive : h.parent[m] \in S}
    ELSE IF segment = "?"
    THEN {m \in h.alive : h.parent[m] \in S /\ h.ident[m] # DefaultIdentifier}
    ELSE {m \in h.alive : h.parent[m] \in S /\ h.ident[m] = segment}

RECURSIVE Matching(_, _, _)
Matching(h, S, path) ==
    IF path = <<>> THEN S ELSE Matching(h, SegmentMatches(h, S, path[1]), Tail(path))

\* C21: path.glob(pattern) returns every matching node, each at most once,
\* also when several expansion chains reach the same node; all returned nodes
\* belong to the start node's subtree and the tree is not changed.
C21_GlobNoDuplicates ==
    /\ [](last.op = "glob" =>
            /\ last.err = Ok
            /\ NoRepeats(last.ret)
            /\ Range(last.ret) = Matching(Heap, {last.args.self}, last.args.path)
            /\ Range(last.ret) \subseteq Subtree(Heap, last.args.self))
    /\ [][Did("glob") => Heap' = Heap]_vars

\* two consecutive "**" segments reach a grandchild along three chains
C21_Witness ==
    /\ last.op = "glob"
    /\ Len(last.args.path) >= 2
    /\ last.args.path[1] = "**" /\ last.args.path[2] = "**"
    /\ \E n \in Range(last.ret) : parent[n] # None /\ parent[parent[n]] = last.args.self

\* C22: Route(n1, ..., nk) raises DifferentTreeError if and only if some
\* waypoint's root is a different node than n1's root, and n1.path.to(n2)
\* returns None in exactly the cases where n1 and n2 have different roots.
C22_DifferentRoots ==
    /\ last.op \in {"lca", "iter_nodes", "len"} =>
          (last.err = "DifferentTreeError" <=> ~SameTree(Heap, last.args.nodes))
    /\ last.op = "to" =>
          (last.ret = None <=> root(Heap, last.args.self) # root(Heap, last.args.other))

\* the subtrees of the given (node, item) entries one after another, each
\* node followed by the subtrees of its children in child order
RECURSIVE PreorderOf(_, _)
PreorderOf(h, items) ==
    IF items = <<>> THEN <<>>
    ELSE <<items[1]>>
         \o PreorderOf(h, child_items(h, items[1].node, items[1].depth + 1))
         \o PreorderOf(h, Tail(items))

\* C23: iter_descendants(order='pre') yields every node before all of its
\* descendants and visits the complete subtrees of a node's children one
\* after another in child order; the item of each yielded node is (its index
\* among its siblings, its depth below the call root), depth 1 for direct
\* children.
C23_Preorder ==
    (last.op = "iter_descendants" /\ last.args.order = "pre" /\ last.args.keep = NoKeep) =>
        /\ last.ret = PreorderOf(Heap, child_items(Heap, last.args.self, 1))
        /\ Range(NodesOf(last.ret)) = Subtree(Heap, last.args.self) \ {last.args.self}
        /\ \A i \in 1..Len(last.ret) :
              /\ last.ret[i] = ItemOf(Heap, last.args.self, last.ret[i].node)
              /\ \A j \in 1..Len(last.ret) :
                    (i # j /\ last.ret[j].node \in Subtree(Heap, last.ret[i].node)) => i < j

\* an unpruned preorder over a node whose first child has a child of its own
\* and a younger sibling
C23_Witness ==
    /\ last.op = "iter_descendants" /\ last.args.order = "pre" /\ last.args.keep = NoKeep
    /\ Len(last.ret) >= 3
    /\ last.ret[1].depth = 1 /\ last.ret[2].depth = 2 /\ last.ret[3].depth = 1

\* the position of node n in a sequence of (node, item) entries
PositionOf(items, n) == CHOOSE i \in 1..Len(items) : items[i].node = n

\* C24: iter_tree(order='level') yields the call root first and then nodes in
\* non-decreasing depth, nodes of equal depth left to right (by the position
\* of their parents, then by child index), under the pruning contract: a
\* node is yielded iff keep accepts it and every node between it and the call
\* root.  On the world tree with keep = depth < 3 it yields
\* [world, Europe, Africa, Norway, Sweden].
C24_LevelOrder ==
    /\ (last.op = "iter_tree" /\ last.args.order = "level") =>
          /\ NoRepeats(NodesOf(last.ret))
          /\ Range(NodesOf(last.ret)) =
                {m \in Subtree(Heap, last.args.self) :
                    /\ keep_call(last.args.keep, NodeItem(last.args.self, 0, 0))
                    /\ \A x \in Below(Heap, last.args.self, m) :
                          keep_call(last.args.keep, ItemOf(Heap, last.args.self, x))}
          /\ last.ret # <<>> => last.ret[1] = NodeItem(last.args.self, 0, 0)
          /\ \A i, j \in 1..Len(last.ret) :
                i < j =>
                  /\ last.ret[i].depth <= last.ret[j].depth
                  /\ (last.ret[i].depth = last.ret[j].depth) =>
                        IF parent[last.ret[i].node] = parent[last.ret[j].node]
                        THEN last.ret[i].index < last.ret[j].index
                        ELSE PositionOf(last.ret, parent[last.ret[i].node])
                               < PositionOf(last.ret, parent[last.ret[j].node])
    /\ NodesOf(iter_tree(WorldHeap, World, [kind |-> "depth", d |-> 3], "level"))
          = <<World, WorldNode(<<"Europe">>), WorldNode(<<"Africa">>),
              WorldNode(<<"Europe", "Norway">>), WorldNode(<<"Europe", "Sweden">>)>>

\* a level-order call that yields a grandchild after a younger child
C24_Witness ==
    /\ last.op = "iter_tree" /\ last.args.order = "level"
    /\ \E i, j \in 1..Len(last.ret) :
          /\ i < j
          /\ last.ret[i].depth = 1 /\ last.ret[i].index = 1
          /\ last.ret[j].depth = 2
          /\ parent[parent[last.ret[j].node]] = last.args.self
          /\ ItemOf(Heap, last.args.self, parent[last.ret[j].node]).index = 0

\* the length of the longest prefix common to all the root-to-node paths of
\* the nodes: the least of the pairwise common-prefix lengths
CommonPrefixAll(h, nodes) ==
    CHOOSE c \in 0..MaxNodes :
        /\ \A k, l \in 1..Len(nodes) :
              c <= common_prefix(iter_path(h, nodes[k]), iter_path(h, nodes[l]))
        /\ \E k, l \in 1..Len(nodes) :
              c = common_prefix(iter_path(h, nodes[k]), iter_path(h, nodes[l]))

\* C25: for k >= 1 root-to-node paths of nodes sharing one root, Route._common
\* returns exactly the length of the longest prefix common to all k paths
\* (what a linear scan from index 0 gives; for k > 2 the minimum of the
\* pairwise common-prefix lengths), and the search terminates.
C25_CommonIsLongestPrefix ==
    (last.op = "common" /\ SameTree(Heap, last.args.nodes)) =>
        /\ last.err = Ok
        /\ last.ret = CommonPrefixAll(Heap, last.args.nodes)

\* node.parent = p went through: node leaves the child map of its old parent
\* (if any) and is appended to p's under its unchanged identifier
Reparented(node, p) ==
    /\ last'.err = Ok
    /\ parent'[node] = p
    /\ cdict'[p] = Append(cdict[p], <<ident[node], node>>)
    /\ parent[node] # None =>
          cdict'[parent[node]] = SelectSeq(cdict[parent[node]], LAMBDA e : e[2] # node)
    /\ Frame({node}, {}, {p, parent[node]})

\* C26: node.parent = p (p not None and not node's current parent), in a
\* well-formed tree: LoopError exactly when p is node itself or a descendant
\* of node, DuplicateChildError when p already has a child with node's
\* identifier, and otherwise (also when p is an ancestor of node, such as its
\* grandparent) node moves from its old parent's child map to the end of p's
\* under its unchanged identifier; a call that raises changes nothing.
C26_SetParent ==
    [][(/\ Did("parent")
        /\ WellFormed(Heap)
        /\ last'.args.parent \notin {None, parent[last'.args.self]}) =>
         IF last'.args.parent \in Subtree(Heap, last'.args.self)
         THEN \/ Failed("LoopError")
              \/ /\ dict_contains(cdict[last'.args.parent], ident[last'.args.self])
                 /\ Failed("DuplicateChildError")
         ELSE IF dict_contains(cdict[last'.args.parent], ident[last'.args.self])
         THEN Failed("DuplicateChildError")
         ELSE Reparented(last'.args.self, last'.args.parent)]_vars

\* C27: for every route through one or more waypoints of one tree (also
\* repeated waypoints and waypoints that are ancestors of each other),
\* len(route) equals count_nodes(), equals count_edges() + 1, and equals the
\* number of nodes that iterating the route yields.
C27_LenIsNodeCount ==
    (last.op = "len" /\ SameTree(Heap, last.args.nodes)) =>
        /\ last.err = Ok
        /\ last.ret = count_nodes(Heap, route_init(Heap, last.args.nodes).ret, NoIndex)
        /\ last.ret = count_edges(Heap, route_init(Heap, last.args.nodes).ret, NoIndex) + 1
        /\ last.ret = Len(iter_nodes(Heap, route_init(Heap, last.args.nodes).ret, NoIndex))

\* C28: for every route through two or more waypoints of one tree,
\* list(reversed(route)) is list(route) in reverse order.
C28_Reversal ==
    (last.op = "reversed" /\ SameTree(Heap, last.args.nodes)) =>
        /\ last.err = Ok
        /\ last.ret = reversed(iter_nodes(Heap, route_init(Heap, last.args.nodes).ret, NoIndex))

\* C29: Route.lca(index) returns the lowest common ancestor of exactly the
\* waypoints selected by index (for an integer i the waypoints i and i+1, for
\* a slice or index list the selected waypoints), consistently with
\* iter_lca(index).
C29_LcaOfSelection ==
    (last.op = "lca_index" /\ SameTree(Heap, last.args.nodes)) =>
        /\ last.err = Ok
        /\ last.ret = iter_path(Heap, index_paths(last.args.nodes, last.args.index)[1])[
                          CommonPrefixAll(Heap, index_paths(last.args.nodes, last.args.index))]
        /\ last.args.index.kind = "int" =>
              last.ret = iter_lca(Heap, route_init(Heap, last.args.nodes).ret,
                                  last.args.index)[1]

RECURSIVE Concat(_)
Concat(seqs) == IF seqs = <<>> THEN <<>> ELSE seqs[1] \o Concat(Tail(seqs))

\* the depth of m below self
DepthBelow(h, self, m) == Len(iter_path(h, m)) - Len(iter_path(h, self))

\* C30: iter_levels() yields one group per depth d = 0, 1, ..., height of
\* the call root's subtree and then stops: group d holds exactly the nodes at
\* depth d below the call root (group 0 the call root alone), left to right,
\* so the groups concatenated are iter_tree(order='level') without keep.
C30_IterLevels ==
    (last.op = "iter_levels") =>
        /\ last.err = Ok
        /\ Len(last.ret) >= 1
        /\ last.ret[1] = <<last.args.self>>
        /\ \A d \in 1..Len(last.ret) :
              /\ last.ret[d] # <<>>
              /\ Range(last.ret[d]) =
                    {m \in Subtree(Heap, last.args.self) :
                        DepthBelow(Heap, last.args.self, m) = d - 1}
        /\ \A m \in Subtree(Heap, last.args.self) :
              DepthBelow(Heap, last.args.self, m) < Len(last.ret)
        /\ Concat(last.ret) = NodesOf(iter_tree(Heap, last.args.self, NoKeep, "level"))

\* three groups, the second with two nodes
C30_Witness ==
    /\ last.op = "iter_levels"
    /\ Len(last.ret) = 3
    /\ Len(last.ret[2]) = 2

====
